---- MODULE Spec2Model ----
(***************************************************************************)
(* Model of the two scripts of immune-state-geometry-scATAC:               *)
(*                                                                         *)
(*   scripts/upload_to_zenodo.py            the archive publisher          *)
(*   scripts/generate_data_code_section.py  the documentation generator    *)
(*                                                                         *)
(* Both scripts are sequential.  A run of main() is modelled as a program  *)
(* counter walking through the statements of main(); the environment (the  *)
(* process environment, the command line, the local file system and the    *)
(* answers of the two remote services) is chosen in the initial state or   *)
(* drawn with \E at the step that consults it.  A publisher run starts     *)
(* after parse_args has accepted the command line.                         *)
(*                                                                         *)
(*   Spec          one run of the publisher                                *)
(*   SpecGen       one run of the generator                                *)
(*   SpecDescribe  one call of describe_table                              *)
(***************************************************************************)
EXTENDS Integers, Sequences, FiniteSets, TLC

VARIABLES
    \* ---- publisher: environment and command line
    token,            \* os.environ.get("ZENODO_TOKEN"): None, "" or a token
    skip_download,    \* args.skip_download
    sandbox,          \* args.sandbox
    metadata_file,    \* state of args.metadata on disk: absent / invalid / valid
    assets,           \* the release's asset names on the code host, in order
    releases_kind,    \* local path "releases": absent / file / dir
    releases_entries, \* names found in the local releases directory
    releases_dirs,    \* those of them that are directories
    \* ---- publisher: the run
    pc,               \* position in main()
    base_url,         \* ZenodoUploader.base_url
    todo,             \* assets still to download (loop of download_release)
    files,            \* main's list `files`
    uidx,             \* index of the upload loop over `files`
    deposition_id,    \* main's deposition_id
    exit_status,      \* process exit status, Running while the run goes on
    log,              \* history: the pipeline steps executed, in order
    \* ---- publisher: remote archival platform and local output
    dep_state,        \* none / draft / published
    dep_id,           \* identifier the platform gave the deposition
    dep_files,        \* files attached to the deposition, in order
    publishes,        \* number of draft -> published transitions
    release_json,     \* zenodo_release.json: absent / partial / written
    \* ---- generator: environment
    root_name,        \* name of the repository root directory
    tree,             \* paths below the root, relative to it
    readme_exists,    \* README.md exists at the root
    readme,           \* bytes of README.md
    linesep,          \* os.linesep of the platform
    \* ---- generator: the run
    gpc,              \* position in main()
    tables_block,     \* main's tables_block
    figs_block,       \* main's figs_block
    readme_before,    \* history: bytes of README.md when the run began
    \* ---- describe_table applied to one path
    d_path,           \* the argument
    d_result          \* the value returned, Unset before the call

pubVars == << token, skip_download, sandbox, metadata_file, assets,
              releases_kind, releases_entries, releases_dirs, pc, base_url, todo, files, uidx,
              deposition_id, exit_status, log, dep_state, dep_id, dep_files,
              publishes, release_json >>

genVars == << root_name, tree, readme_exists, readme, linesep, gpc,
              tables_block, figs_block, readme_before >>

descVars == << d_path, d_result >>

vars == << pubVars, genVars, descVars >>

----------------------------------------------------------------------------
(* Bounds of the model *)

MaxAssets == 2      \* assets of a release
MaxLocal == 2       \* entries of the local releases directory
MaxDocPieces == 2   \* pieces a README is put together from
MaxFiles == 2       \* paths of a scanned tree
MaxNamePieces == 2  \* pieces a file name is put together from

----------------------------------------------------------------------------
(* Publisher: constants of the source *)

ZENODO_SANDBOX == "https://sandbox.zenodo.org/api"
ZENODO_PROD == "https://zenodo.org/api"

None == "<None>"                 \* os.environ.get of an unset variable
Running == -1                    \* no exit status yet

AssetNames == {"a.tsv", "b.zip", "sub"}
\* an entry of the local releases directory is a regular file or a directory;
\* these names are directories when they are there before the run
LocalDirs == {"sub"}
LocalNames == {"a.tsv", "b.zip", "sub"}
DepIds == {101, 102}

\* what a remote call can come to:
\*   ok          2xx with the expected body
\*   bad_body    2xx whose body lacks what the caller reads from it
\*   http_error  4xx/5xx: raise_for_status raises, the platform did nothing
\*   timeout     requests raises; the platform may or may not have acted
Outcomes == {"ok", "bad_body", "http_error", "timeout"}

\* all orderings of a finite set, as sequences without repetition
RECURSIVE Orderings(_)
Orderings(S) ==
    IF S = {} THEN { <<>> }
    ELSE UNION { { <<x>> \o s : s \in Orderings(S \ {x}) } : x \in S }

SeqsNoRepeat(S, n) ==
    UNION { Orderings(T) : T \in { U \in SUBSET S : Cardinality(U) <= n } }

----------------------------------------------------------------------------
(* Publisher: helpers translated from the source *)

\* the test written as `if token is None:` -- an empty token passes
NotTokenNoneOnly(t) == t = None

\* `if not token:` -- None and the empty string are both falsy
NotToken(t) == t = None \/ t = ""

\* the call to raise_for_status() left out: an error status goes unnoticed
raise_for_status_missing(o) == FALSE

\* Response.raise_for_status(): raises on a non-success status
raise_for_status(o) == o = "http_error"

\* a remote call raises: requests raises on a timeout, raise_for_status on
\* an error status, and reading the body raises when it is not as expected
CallRaises(o) == o = "timeout" \/ raise_for_status(o) \/ o = "bad_body"

\* the loop written over xs[:-1]: the last member is never reached
ExhaustedOneEarly(i, xs) == i >= Len(xs)

\* `for x in xs:` has run through xs when the next index is past its end
Exhausted(i, xs) == i > Len(xs)

\* the test for an empty list left out
NoFilesUnchecked(fs) == FALSE

\* `if not files:`
NoFiles(fs) == fs = <<>>

\* the publish call moved in front of the upload loop
SuccPublishFirst(p) ==
    CASE p = "check_files" -> "create"
      [] p = "create" -> "publish"
      [] p = "publish" -> "upload"
      [] p = "upload" -> "extract"
      [] p = "extract" -> "save"
      [] p = "save" -> "return"

\* the summary record never written: main returns 0 after printing the DOI
SuccWithoutSave(p) ==
    CASE p = "check_files" -> "create"
      [] p = "create" -> "upload"
      [] p = "upload" -> "publish"
      [] p = "publish" -> "extract"
      [] p = "extract" -> "return"
      [] p = "save" -> "return"

\* the statements of main() after the file list is known, in program order
Succ(p) ==
    CASE p = "check_files" -> "create"
      [] p = "create" -> "upload"
      [] p = "upload" -> "publish"
      [] p = "publish" -> "extract"
      [] p = "extract" -> "save"
      [] p = "save" -> "return"

Event(step, ok, net, arg, dep) ==
    [step |-> step, ok |-> ok, net |-> net, arg |-> arg, dep |-> dep]

\* `except Exception` of main: report and return 1, which sys.exit passes on
Raise == pc' = "exited" /\ exit_status' = 1

\* sys.exit(1): SystemExit is no Exception, the handler lets it through
SysExit1 == pc' = "exited" /\ exit_status' = 1

----------------------------------------------------------------------------
(* Publisher: initial state -- the environment of one run *)

PubInit ==
    /\ token \in {None, "", "tok"}
    /\ skip_download \in BOOLEAN
    /\ sandbox \in BOOLEAN
    /\ metadata_file \in {"absent", "invalid", "valid"}
    /\ assets \in SeqsNoRepeat(AssetNames, MaxAssets)
    /\ releases_kind \in {"absent", "file", "dir"}
    /\ releases_entries \in { S \in SUBSET LocalNames : Cardinality(S) <= MaxLocal }
    /\ (releases_kind # "dir" => releases_entries = {})
    /\ releases_dirs = releases_entries \cap LocalDirs
    /\ pc = "token"
    /\ base_url = ""
    /\ todo = <<>>
    /\ files = <<>>
    /\ uidx = 0
    /\ deposition_id = 0
    /\ exit_status = Running
    /\ log = <<>>
    /\ dep_state = "none"
    /\ dep_id = 0
    /\ dep_files = <<>>
    /\ publishes = 0
    /\ release_json = "absent"

----------------------------------------------------------------------------
(* Publisher: the steps of main() *)

\* lines 206-210
CheckToken ==
    /\ pc = "token"
    /\ IF NotToken(token)
       THEN SysExit1
       ELSE pc' = "meta_exists" /\ UNCHANGED exit_status
    /\ UNCHANGED << genVars, descVars, releases_dirs >>
    /\ UNCHANGED << token, skip_download, sandbox, metadata_file, assets,
                    releases_kind, releases_entries, base_url, todo, files,
                    uidx, deposition_id, log, dep_state, dep_id, dep_files,
                    publishes, release_json >>

\* lines 214-216
CheckMetadata ==
    /\ pc = "meta_exists"
    /\ IF metadata_file = "absent"
       THEN SysExit1
       ELSE pc' = "load" /\ UNCHANGED exit_status
    /\ UNCHANGED << genVars, descVars, releases_dirs >>
    /\ UNCHANGED << token, skip_download, sandbox, metadata_file, assets,
                    releases_kind, releases_entries, base_url, todo, files,
                    uidx, deposition_id, log, dep_state, dep_id, dep_files,
                    publishes, release_json >>

\* line 218, load_zenodo_metadata: json.load raises on a file that is no JSON
LoadMetadata ==
    /\ pc = "load"
    /\ LET ok == metadata_file = "valid" IN
       /\ log' = Append(log, Event("load_metadata", ok, "none", "", 0))
       /\ IF ok THEN pc' = "init" /\ UNCHANGED exit_status ELSE Raise
    /\ UNCHANGED << genVars, descVars, releases_dirs >>
    /\ UNCHANGED << token, skip_download, sandbox, metadata_file, assets,
                    releases_kind, releases_entries, base_url, todo, files,
                    uidx, deposition_id, dep_state, dep_id, dep_files,
                    publishes, release_json >>

\* line 222, ZenodoUploader.__init__, and the branch of line 225
InitUploader ==
    /\ pc = "init"
    /\ base_url' = IF sandbox THEN ZENODO_SANDBOX ELSE ZENODO_PROD
    /\ pc' = IF skip_download THEN "glob" ELSE "mkdir"
    /\ UNCHANGED << genVars, descVars, releases_dirs >>
    /\ UNCHANGED << token, skip_download, sandbox, metadata_file, assets,
                    releases_kind, releases_entries, todo, files, uidx,
                    deposition_id, exit_status, log, dep_state, dep_id,
                    dep_files, publishes, release_json >>

\* line 230: every entry of releases/ (files and directories alike), in the
\* order the file system gives them; an absent path or a regular file gives []
Glob ==
    /\ pc = "glob"
    /\ \E fs \in Orderings(releases_entries) : files' = fs
    /\ pc' = "check_files"
    /\ UNCHANGED << genVars, descVars, releases_dirs >>
    /\ UNCHANGED << token, skip_download, sandbox, metadata_file, assets,
                    releases_kind, releases_entries, base_url, todo, uidx,
                    deposition_id, exit_status, log, dep_state, dep_id,
                    dep_files, publishes, release_json >>

\* lines 127-128: mkdir(exist_ok=True) raises when the path is a regular file
Mkdir ==
    /\ pc = "mkdir"
    /\ IF releases_kind = "file"
       THEN /\ Raise
            /\ log' = Append(log, Event("mkdir", FALSE, "none", "", 0))
            /\ UNCHANGED releases_kind
       ELSE /\ releases_kind' = "dir"
            /\ pc' = "lookup"
            /\ UNCHANGED << exit_status, log >>
    /\ UNCHANGED << genVars, descVars, releases_dirs >>
    /\ UNCHANGED << token, skip_download, sandbox, metadata_file, assets,
                    releases_entries, base_url, todo, files, uidx,
                    deposition_id, dep_state, dep_id, dep_files, publishes,
                    release_json >>

\* lines 131-136: the release descriptor
Lookup ==
    /\ pc = "lookup"
    /\ \E o \in Outcomes :
        /\ log' = Append(log, Event("lookup", o = "ok", "github", "", 0))
        /\ IF CallRaises(o)
           THEN Raise /\ UNCHANGED << todo, files >>
           ELSE /\ todo' = assets
                /\ files' = <<>>
                /\ pc' = "download"
                /\ UNCHANGED exit_status
    /\ UNCHANGED << genVars, descVars, releases_dirs >>
    /\ UNCHANGED << token, skip_download, sandbox, metadata_file, assets,
                    releases_kind, releases_entries, base_url, uidx,
                    deposition_id, dep_state, dep_id, dep_files, publishes,
                    release_json >>

\* lines 137-149: one turn of the loop over the assets; open(file_path, 'wb')
\* raises when the name is a directory of releases/
Download ==
    /\ pc = "download"
    /\ todo # <<>>
    /\ LET name == Head(todo) IN
       \E o \in Outcomes \ {"bad_body"} :
        LET is_dir == name \in releases_dirs IN
        /\ log' = Append(log, Event("download", o = "ok" /\ ~is_dir, "github", name, 0))
        /\ IF CallRaises(o) \/ is_dir
           THEN Raise /\ UNCHANGED << releases_entries, files, todo >>
           ELSE /\ releases_entries' = releases_entries \cup {name}
                /\ files' = Append(files, name)
                /\ todo' = Tail(todo)
                /\ UNCHANGED << pc, exit_status >>
    /\ UNCHANGED << genVars, descVars, releases_dirs >>
    /\ UNCHANGED << token, skip_download, sandbox, metadata_file, assets,
                    releases_kind, base_url, uidx, deposition_id, dep_state,
                    dep_id, dep_files, publishes, release_json >>

\* line 151: the loop is over, download_release returns files
DownloadDone ==
    /\ pc = "download"
    /\ todo = <<>>
    /\ pc' = "check_files"
    /\ UNCHANGED << genVars, descVars, releases_dirs >>
    /\ UNCHANGED << token, skip_download, sandbox, metadata_file, assets,
                    releases_kind, releases_entries, base_url, todo, files,
                    uidx, deposition_id, exit_status, log, dep_state, dep_id,
                    dep_files, publishes, release_json >>

\* lines 232-234
CheckFiles ==
    /\ pc = "check_files"
    /\ IF NoFiles(files)
       THEN SysExit1
       ELSE pc' = Succ("check_files") /\ UNCHANGED exit_status
    /\ UNCHANGED << genVars, descVars, releases_dirs >>
    /\ UNCHANGED << token, skip_download, sandbox, metadata_file, assets,
                    releases_kind, releases_entries, base_url, todo, files,
                    uidx, deposition_id, log, dep_state, dep_id, dep_files,
                    publishes, release_json >>

\* lines 238-239, create_deposition (55-65)
CreateDeposition ==
    /\ pc = "create"
    /\ \E o \in Outcomes, id \in DepIds, acted \in BOOLEAN :
        /\ (o \in {"ok", "bad_body"} => acted)
        /\ (o = "http_error" => ~acted)
        /\ log' = Append(log, Event("create", o = "ok", "zenodo", base_url, 0))
        /\ IF acted
           THEN dep_state' = "draft" /\ dep_id' = id
           ELSE UNCHANGED << dep_state, dep_id >>
        /\ IF CallRaises(o)
           THEN Raise /\ UNCHANGED << deposition_id, uidx >>
           ELSE /\ deposition_id' = id
                /\ uidx' = 1
                /\ pc' = Succ("create")
                /\ UNCHANGED exit_status
    /\ UNCHANGED << genVars, descVars, releases_dirs >>
    /\ UNCHANGED << token, skip_download, sandbox, metadata_file, assets,
                    releases_kind, releases_entries, base_url, todo, files,
                    dep_files, publishes, release_json >>

\* line 244, upload_file (77-92): open(file_path, 'rb') raises on a directory
\* before any request is sent
UploadFile ==
    /\ pc = "upload"
    /\ ~Exhausted(uidx, files)
    /\ LET name == files[uidx] IN
       IF name \in releases_dirs
       THEN /\ log' = Append(log, Event("upload", FALSE, "none", name, deposition_id))
            /\ Raise
            /\ UNCHANGED << uidx, dep_files >>
       ELSE \E o \in Outcomes, acted \in BOOLEAN :
            /\ (o \in {"ok", "bad_body"} => acted)
            /\ (o = "http_error" => ~acted)
            /\ log' = Append(log, Event("upload", o = "ok", "zenodo", name, deposition_id))
            /\ dep_files' = IF acted THEN Append(dep_files, name) ELSE dep_files
            /\ IF CallRaises(o)
               THEN Raise /\ UNCHANGED uidx
               ELSE uidx' = uidx + 1 /\ UNCHANGED << pc, exit_status >>
    /\ UNCHANGED << genVars, descVars, releases_dirs >>
    /\ UNCHANGED << token, skip_download, sandbox, metadata_file, assets,
                    releases_kind, releases_entries, base_url, todo, files,
                    deposition_id, dep_state, dep_id, publishes, release_json >>

\* line 243: the loop over files is over
UploadDone ==
    /\ pc = "upload"
    /\ Exhausted(uidx, files)
    /\ pc' = Succ("upload")
    /\ UNCHANGED << genVars, descVars, releases_dirs >>
    /\ UNCHANGED << token, skip_download, sandbox, metadata_file, assets,
                    releases_kind, releases_entries, base_url, todo, files,
                    uidx, deposition_id, exit_status, log, dep_state, dep_id,
                    dep_files, publishes, release_json >>

\* line 248, publish_deposition (103-113)
PublishDeposition ==
    /\ pc = "publish"
    /\ \E o \in Outcomes, acted \in BOOLEAN :
        /\ (o \in {"ok", "bad_body"} => acted)
        /\ (o = "http_error" => ~acted)
        /\ log' = Append(log, Event("publish", o = "ok", "zenodo", base_url, deposition_id))
        /\ IF acted /\ dep_state = "draft"
           THEN dep_state' = "published" /\ publishes' = publishes + 1
           ELSE UNCHANGED << dep_state, publishes >>
        /\ IF CallRaises(o)
           THEN Raise
           ELSE pc' = Succ("publish") /\ UNCHANGED exit_status
    /\ UNCHANGED << genVars, descVars, releases_dirs >>
    /\ UNCHANGED << token, skip_download, sandbox, metadata_file, assets,
                    releases_kind, releases_entries, base_url, todo, files,
                    uidx, deposition_id, dep_id, dep_files, release_json >>

\* lines 251-252: published['record_id'] raises when the answer has none
ExtractDoi ==
    /\ pc = "extract"
    /\ \E has_record_id \in BOOLEAN :
        IF has_record_id
        THEN pc' = Succ("extract") /\ UNCHANGED << exit_status, log >>
        ELSE /\ Raise
             /\ log' = Append(log, Event("extract", FALSE, "none", "", deposition_id))
    /\ UNCHANGED << genVars, descVars, releases_dirs >>
    /\ UNCHANGED << token, skip_download, sandbox, metadata_file, assets,
                    releases_kind, releases_entries, base_url, todo, files,
                    uidx, deposition_id, dep_state, dep_id, dep_files,
                    publishes, release_json >>

\* lines 272-273: open(..., "w") may fail; json.dump may fail after the file
\* was opened, which leaves it truncated
SaveInfo ==
    /\ pc = "save"
    /\ \E io \in {"ok", "open_fails", "dump_fails"} :
        /\ log' = Append(log, Event("summary", io = "ok", "none", "", deposition_id))
        /\ release_json' = CASE io = "ok" -> "written"
                             [] io = "dump_fails" -> "partial"
                             [] OTHER -> release_json
        /\ IF io = "ok"
           THEN pc' = Succ("save") /\ UNCHANGED exit_status
           ELSE Raise
    /\ UNCHANGED << genVars, descVars, releases_dirs >>
    /\ UNCHANGED << token, skip_download, sandbox, metadata_file, assets,
                    releases_kind, releases_entries, base_url, todo, files,
                    uidx, deposition_id, dep_state, dep_id, dep_files,
                    publishes >>

\* line 277 and line 287: return 0, sys.exit(0)
Return0 ==
    /\ pc = "return"
    /\ pc' = "exited"
    /\ exit_status' = 0
    /\ UNCHANGED << genVars, descVars, releases_dirs >>
    /\ UNCHANGED << token, skip_download, sandbox, metadata_file, assets,
                    releases_kind, releases_entries, base_url, todo, files,
                    uidx, deposition_id, log, dep_state, dep_id, dep_files,
                    publishes, release_json >>

PubNext ==
    \/ CheckToken
    \/ CheckMetadata
    \/ LoadMetadata
    \/ InitUploader
    \/ Glob
    \/ Mkdir
    \/ Lookup
    \/ Download
    \/ DownloadDone
    \/ CheckFiles
    \/ CreateDeposition
    \/ UploadFile
    \/ UploadDone
    \/ PublishDeposition
    \/ ExtractDoi
    \/ SaveInfo
    \/ Return0

----------------------------------------------------------------------------
(* Generator: strings *)

(***************************************************************************)
(* A string is a sequence of atoms.  An atom is one character, except that *)
(* the fixed descriptions and placeholder sentences of the source and the  *)
(* directory names are kept whole: none of them holds "<" or ">", so no    *)
(* occurrence of a placeholder token can begin, end or lie inside one, and *)
(* they are never searched for a key.  Keys, tokens and file names are     *)
(* character by character, so that substring search is computed, not       *)
(* assumed.                                                                *)
(***************************************************************************)
CR == "<CR>"
LF == "<LF>"
BAD == "<byte that is no UTF-8>"
EN_DASH == "<EN DASH>"
BACKTICK == "<BACKTICK>"

TABLES_TOKEN ==
    << "<", "!", "-", "-", " ", "T", "A", "B", "L", "E", "S", "_", "A", "U",
       "T", "O", " ", "-", "-", ">" >>
FIGS_TOKEN ==
    << "<", "!", "-", "-", " ", "F", "I", "G", "S", "_", "A", "U", "T", "O",
       " ", "-", "-", ">" >>
K_Fig1 ==
    << "F", "i", "g", "1", "_", "I", "n", "f", "o", "A", "r", "c", "h", "i",
       "t", "e", "c", "t", "u", "r", "e" >>
K_Fig2 ==
    << "F", "i", "g", "2", "_", "S", "e", "p", "a", "r", "a", "t", "i", "o",
       "n" >>
K_Fig3 ==
    << "F", "i", "g", "3", "_", "V", "u", "l", "n", "e", "r", "a", "b", "i",
       "l", "i", "t", "y", "C", "u", "r", "v", "e", "s" >>
K_Fig4 ==
    << "F", "i", "g", "4", "_", "V", "u", "l", "n", "e", "r", "a", "b", "i",
       "l", "i", "t", "y", "S", "u", "m", "m", "a", "r", "y" >>
K_ED2 ==
    << "E", "D", "2", "_", "T", "D", "A" >>
K_EDS ==
    << "E", "D", "_", "S", "u", "p", "p", "l", "e", "m", "e", "n", "t", "a",
       "r", "y" >>
EXT_TSV == << ".", "t", "s", "v" >>
EXT_PDF == << ".", "p", "d", "f" >>
FIG_PREFIX == << "F", "i", "g" >>

\* the dict of describe_table, in insertion order
descriptions ==
    << [key |-> K_Fig1, desc |-> << "Reduced informational coordinates and cluster assignments (Fig. 1)." >>],
       [key |-> K_Fig2, desc |-> << "State separation metrics and pairwise distances (Fig. 2)." >>],
       [key |-> K_Fig3, desc |-> << "Vulnerability curves across perturbation fractions (Fig. 3)." >>],
       [key |-> K_Fig4, desc |-> << "Summary vulnerability metrics by state and donor (Fig. 4)." >>],
       [key |-> K_ED2,  desc |-> << "Topological Data Analysis persistence summaries (Extended Data 2)." >>],
       [key |-> K_EDS,  desc |-> << "Additional supplementary data tables." >>] >>

FALLBACK == << "Processed analysis table." >>
NO_TABLES == << "*No processed data files found. Tables will be added as analysis progresses.*" >>
NO_TABLES_LEFT == << "*No processed data files found.*" >>
NO_FIGS == << "*Figure PDFs will be added upon completion of analysis.*" >>
NO_FIGS_LEFT == << "*No figure PDFs found.*" >>
METADATA == << "metadata" >>

Range(s) == { s[i] : i \in 1..Len(s) }

StartsWith(s, p) == Len(p) <= Len(s) /\ SubSeq(s, 1, Len(p)) = p
EndsWith(s, p) == Len(p) <= Len(s) /\ SubSeq(s, Len(s) - Len(p) + 1, Len(s)) = p

\* Python's `pat in s`
Contains(pat, s) ==
    \E i \in 1..(Len(s) - Len(pat) + 1) : SubSeq(s, i, i + Len(pat) - 1) = pat

\* Python's s.find(pat) + 1: the place of the leftmost occurrence, 0 for none
Find(s, pat) ==
    LET at == { i \in 1..(Len(s) - Len(pat) + 1) : SubSeq(s, i, i + Len(pat) - 1) = pat }
    IN  IF at = {} THEN 0 ELSE CHOOSE i \in at : \A j \in at : i <= j

\* Python's s.replace(old, new): every occurrence, left to right, without
\* overlap; the text put in is not searched again
RECURSIVE Replace(_, _, _)
Replace(s, old, new) ==
    LET i == Find(s, old) IN
    IF i = 0 THEN s
    ELSE SubSeq(s, 1, i - 1) \o new \o Replace(SubSeq(s, i + Len(old), Len(s)), old, new)

\* Python's sep.join(parts)
RECURSIVE Join(_, _)
Join(parts, sep) ==
    IF parts = <<>> THEN <<>>
    ELSE IF Len(parts) = 1 THEN parts[1]
    ELSE parts[1] \o sep \o Join(Tail(parts), sep)

RECURSIVE Concat(_)
Concat(parts) == IF parts = <<>> THEN <<>> ELSE Head(parts) \o Concat(Tail(parts))

\* sequences of at most n members of S
RECURSIVE SeqsUpTo(_, _)
SeqsUpTo(S, n) ==
    IF n = 0 THEN { <<>> }
    ELSE LET shorter == SeqsUpTo(S, n - 1) IN
         shorter \cup { Append(s, x) : s \in shorter, x \in S }

----------------------------------------------------------------------------
(* Generator: paths and the scan *)

\* a path below the root: its directories from the root down, and its name
PathOf(dir, name) == [dir |-> dir, name |-> name]

\* filepath.parent.name; the parent of a top-level path is the root itself
ParentName(rn, p) == IF p.dir = <<>> THEN rn ELSE p.dir[Len(p.dir)]

\* str(filepath.relative_to(root))
RelPath(p) == Join(p.dir \o << p.name >>, << "/" >>)

P_DataFig2 == PathOf(<< << "data" >> >>, K_Fig2 \o EXT_TSV)
P_DataOdd == PathOf(<< << "data" >> >>, << "a" >> \o FIGS_TOKEN \o EXT_TSV)
P_Fig1Pdf == PathOf(<< << "figures" >> >>, FIG_PREFIX \o << "1" >> \o EXT_PDF)
P_MetaSamples == PathOf(<< METADATA >>, << "s" >> \o EXT_TSV)
P_MetaSubSamples == PathOf(<< METADATA, << "sub" >> >>, << "s" >> \o EXT_TSV)
P_TopSamples == PathOf(<< >>, << "s" >> \o EXT_TSV)

\* the paths a tree is made of, in the order Python sorts Path objects
\* (component by component, by code point)
PathOrder ==
    << P_DataFig2, P_DataOdd, P_Fig1Pdf, P_MetaSamples, P_MetaSubSamples,
       P_TopSamples >>

\* sorted(...) of a set of paths
Sorted(paths) == SelectSeq(PathOrder, LAMBDA p : p \in paths)

\* lines 23-25: sorted(root.rglob("*.tsv"))
get_tsv_files(t) == Sorted({ p \in t : EndsWith(p.name, EXT_TSV) })

\* lines 28-31: sorted(root.rglob("Fig*.pdf"))
get_pdf_figures(t) ==
    Sorted({ p \in t : StartsWith(p.name, FIG_PREFIX) /\ EndsWith(p.name, EXT_PDF)
                       /\ Len(p.name) >= Len(FIG_PREFIX) + Len(EXT_PDF) })

\* lines 46-50: the loop over the dict, first match wins
RECURSIVE DescribeFrom(_, _)
DescribeFrom(name, i) ==
    IF i > Len(descriptions) THEN FALLBACK
    ELSE IF Contains(descriptions[i].key, name) THEN descriptions[i].desc
    ELSE DescribeFrom(name, i + 1)

\* the key looked for in str(filepath) instead of filepath.name
NameOfWholePath(filepath) == RelPath(filepath)

\* line 36: only the last component of the path is looked at
NameOf(filepath) == filepath.name

\* lines 34-50
describe_table(filepath) == DescribeFrom(NameOf(filepath), 1)

\* lines 63-64: the test that skips a path
IsSkipped(rn, p) == ParentName(rn, p) = METADATA

\* line 68
TableLine(p) ==
    << "-", " ", BACKTICK >> \o RelPath(p) \o << BACKTICK, " ", EN_DASH, " " >> \o describe_table(p)

\* lines 60-68: the lines of the kept paths, in order
RECURSIVE TableLines(_, _)
TableLines(rn, ps) ==
    IF ps = <<>> THEN <<>>
    ELSE IF IsSkipped(rn, Head(ps)) THEN TableLines(rn, Tail(ps))
    ELSE << TableLine(Head(ps)) >> \o TableLines(rn, Tail(ps))

\* lines 53-70
generate_tables_section(rn, t) ==
    LET tsv_files == get_tsv_files(t) IN
    IF tsv_files = <<>> THEN NO_TABLES
    ELSE LET lines == TableLines(rn, tsv_files) IN
         IF lines # <<>> THEN Join(lines, << LF >>) ELSE NO_TABLES_LEFT

\* line 83
FigureLine(p) == << "-", " ", BACKTICK >> \o RelPath(p) \o << BACKTICK >>

\* lines 73-85
generate_figures_section(t) ==
    LET pdf_files == get_pdf_figures(t) IN
    IF pdf_files = <<>> THEN NO_FIGS
    ELSE LET lines == [i \in 1..Len(pdf_files) |-> FigureLine(pdf_files[i])] IN
         IF lines # <<>> THEN Join(lines, << LF >>) ELSE NO_FIGS_LEFT

----------------------------------------------------------------------------
(* Generator: README.md *)

\* read_text(encoding="utf-8") raises on bytes that are no UTF-8
Decodable(bytes) == BAD \notin Range(bytes)

\* read_text: text mode with universal newlines, "\r\n" and "\r" read as "\n"
ReadText(bytes) ==
    LET kept == SelectSeq([i \in 1..Len(bytes) |-> i],
                          LAMBDA i : ~(bytes[i] = LF /\ i > 1 /\ bytes[i - 1] = CR))
    IN  [k \in 1..Len(kept) |-> IF bytes[kept[k]] = CR THEN LF ELSE bytes[kept[k]]]

\* write_text: text mode, "\n" written as os.linesep
WriteText(text, sep) == Replace(text, << LF >>, sep)

\* the substitutions made only when both markers are there
update_text_both_or_none(text, tb, fb) ==
    IF Contains(TABLES_TOKEN, text) /\ Contains(FIGS_TOKEN, text)
    THEN Replace(Replace(text, TABLES_TOKEN, tb), FIGS_TOKEN, fb)
    ELSE text

\* lines 99-105: the two substitutions, one after the other
update_text(text, tb, fb) ==
    LET t1 == IF Contains(TABLES_TOKEN, text) THEN Replace(text, TABLES_TOKEN, tb) ELSE text
        t2 == IF Contains(FIGS_TOKEN, t1) THEN Replace(t1, FIGS_TOKEN, fb) ELSE t1
    IN  t2

DocPieces == { TABLES_TOKEN, FIGS_TOKEN, << "x" >>, << CR >>, << LF >>, << BAD >> }
Docs == { Concat(ps) : ps \in SeqsUpTo(DocPieces, MaxDocPieces) }
Trees == { t \in SUBSET Range(PathOrder) : Cardinality(t) <= MaxFiles }
Unset == << "<unset>" >>

GenIdle ==
    /\ root_name = << "immune-state-geometry-scATAC" >>
    /\ tree = {}
    /\ readme_exists = FALSE
    /\ readme = <<>>
    /\ linesep = << LF >>
    /\ gpc = "idle"
    /\ tables_block = Unset
    /\ figs_block = Unset
    /\ readme_before = <<>>

GenInit ==
    /\ root_name \in { << "immune-state-geometry-scATAC" >>, METADATA }
    /\ tree \in Trees
    /\ readme_exists \in BOOLEAN
    /\ readme \in Docs
    /\ (~readme_exists => readme = <<>>)
    /\ linesep \in { << LF >>, << CR, LF >> }
    /\ gpc = "tables"
    /\ tables_block = Unset
    /\ figs_block = Unset
    /\ readme_before = readme

\* line 121
GenTables ==
    /\ gpc = "tables"
    /\ tables_block' = generate_tables_section(root_name, tree)
    /\ gpc' = "figs"
    /\ UNCHANGED << root_name, tree, readme_exists, readme, linesep,
                    figs_block, readme_before >>
    /\ UNCHANGED << pubVars, descVars >>

\* line 122
GenFigures ==
    /\ gpc = "figs"
    /\ figs_block' = generate_figures_section(tree)
    /\ gpc' = "update"
    /\ UNCHANGED << root_name, tree, readme_exists, readme, linesep,
                    tables_block, readme_before >>
    /\ UNCHANGED << pubVars, descVars >>

\* line 140, update_readme (88-109): without a README it warns and returns;
\* a README that is no UTF-8 makes read_text raise, which ends the run; any
\* other README is read, substituted and written back
UpdateReadme ==
    /\ gpc = "update"
    /\ IF ~readme_exists
       THEN gpc' = "done" /\ UNCHANGED readme
       ELSE IF ~Decodable(readme)
       THEN gpc' = "raised" /\ UNCHANGED readme
       ELSE /\ readme' = WriteText(update_text(ReadText(readme), tables_block, figs_block), linesep)
            /\ gpc' = "done"
    /\ UNCHANGED << root_name, tree, readme_exists, linesep, tables_block,
                    figs_block, readme_before >>
    /\ UNCHANGED << pubVars, descVars >>

GenNext ==
    \/ GenTables
    \/ GenFigures
    \/ UpdateReadme

----------------------------------------------------------------------------
(* describe_table on its own: one call on one path *)

NamePieces ==
    { K_Fig1, K_Fig2, K_Fig3, K_Fig4, K_ED2, K_EDS,
      SubSeq(K_Fig1, 1, 9), SubSeq(K_Fig1, 10, Len(K_Fig1)), << "x" >> }
DescNames == { Concat(ps) \o EXT_TSV : ps \in SeqsUpTo(NamePieces, MaxNamePieces) }
DescDirs == { << >>, << K_Fig2 >>, << << "data" >>, K_ED2 >> }

DescIdle ==
    /\ d_path = PathOf(<< >>, << >>)
    /\ d_result = Unset

DescInit ==
    /\ d_path \in { PathOf(d, n) : d \in DescDirs, n \in DescNames }
    /\ d_result = Unset

Describe ==
    /\ d_result = Unset
    /\ d_path.name # << >>
    /\ d_result' = describe_table(d_path)
    /\ UNCHANGED d_path
    /\ UNCHANGED << pubVars, genVars >>

DescNext ==
    \/ Describe

----------------------------------------------------------------------------
(* The three programs *)

PubIdle ==
    /\ token = None
    /\ skip_download = FALSE
    /\ sandbox = FALSE
    /\ metadata_file = "absent"
    /\ assets = <<>>
    /\ releases_kind = "absent"
    /\ releases_entries = {}
    /\ releases_dirs = {}
    /\ pc = "idle"
    /\ base_url = ""
    /\ todo = <<>>
    /\ files = <<>>
    /\ uidx = 0
    /\ deposition_id = 0
    /\ exit_status = Running
    /\ log = <<>>
    /\ dep_state = "none"
    /\ dep_id = 0
    /\ dep_files = <<>>
    /\ publishes = 0
    /\ release_json = "absent"

\* the publisher
Init == PubInit /\ GenIdle /\ DescIdle
Next == PubNext
Spec == Init /\ [][Next]_vars

\* the generator
InitGen == PubIdle /\ GenInit /\ DescIdle
SpecGen == InitGen /\ [][GenNext]_vars

\* describe_table
InitDescribe == PubIdle /\ GenIdle /\ DescInit
SpecDescribe == InitDescribe /\ [][DescNext]_vars

----------------------------------------------------------------------------
(* Publisher: what the log says *)

Idx == 1..Len(log)
StepsAt(step) == { i \in Idx : log[i].step = step }
Failed == { i \in Idx : ~log[i].ok }
TokenMissing == token = None \/ token = ""
\* the arguments of the successful uploads, in order
Uploaded ==
    LET ups == SelectSeq(log, LAMBDA e : e.step = "upload" /\ e.ok)
    IN  [k \in 1..Len(ups) |-> ups[k].arg]
IsPrefix(a, b) == Len(a) <= Len(b) /\ SubSeq(b, 1, Len(a)) = a

\* C1: a step that fails is the last step of the run: nothing is executed
\* after it and the run ends with status 1.  A failing release lookup or
\* asset download leaves no deposition creation, a failing creation no
\* upload, a failing upload no further upload and no publish, a failing
\* publish no summary record.
C1_AbortOnFirstFailure ==
    /\ \A i \in Failed : i = Len(log) /\ pc = "exited" /\ exit_status = 1
    /\ \A i \in Failed :
        /\ log[i].step \in {"load_metadata", "mkdir", "lookup", "download"}
              => StepsAt("create") = {} /\ dep_state = "none"
        /\ log[i].step = "create" => StepsAt("upload") = {} /\ dep_files = <<>>
        /\ log[i].step = "upload"
              => StepsAt("publish") = {} /\ \A j \in StepsAt("upload") : j <= i
        /\ log[i].step \in {"publish", "extract"}
              => StepsAt("summary") = {} /\ release_json = "absent"

\* a second upload was refused after a first one went through
C1_Witness ==
    /\ pc = "exited"
    /\ Cardinality(StepsAt("upload")) = 2
    /\ ~log[Len(log)].ok
    /\ log[Len(log)].step = "upload"
    /\ log[Len(log)].net = "zenodo"

\* C2: without a token (unset or empty) the run makes no call to either
\* service and executes no pipeline step, whatever the other arguments and
\* whether or not the metadata file is there, and it ends with status 1.
C2_NoTokenNoNetwork ==
    TokenMissing =>
        /\ log = <<>>
        /\ dep_state = "none"
        /\ base_url = ""
        /\ pc \in {"token", "exited"}
        /\ (pc = "exited" => exit_status = 1)

C2_Witness ==
    /\ token = ""
    /\ pc = "exited"
    /\ exit_status = 1
    /\ skip_download
    /\ sandbox
    /\ metadata_file = "valid"

\* C3: a run ends with 0 or 1; with 0 exactly when every step succeeded and
\* the summary record was written after a successful publish; with 1 when
\* the token or the metadata file is missing, the file list is empty or a
\* step failed.  The record is written at most once, and never without a
\* publish that succeeded before.
C3_ExitStatus ==
    /\ Cardinality(StepsAt("summary")) <= 1
    /\ (release_json # "absent" \/ StepsAt("summary") # {})
          => \E i \in StepsAt("publish") : log[i].ok /\ \A j \in StepsAt("summary") : i < j
    /\ pc # "exited" => exit_status = Running
    /\ pc = "exited" =>
        /\ exit_status \in {0, 1}
        /\ exit_status = 0 <=>
              /\ Failed = {}
              /\ release_json = "written"
              /\ \E i \in StepsAt("publish"), j \in StepsAt("summary") : i < j
        /\ (TokenMissing \/ metadata_file = "absent" \/ files = <<>> \/ Failed # {})
              => exit_status = 1

C3_Witness ==
    /\ pc = "exited"
    /\ exit_status = 0
    /\ release_json = "written"
    /\ Len(files) = 2

\* C8: nothing that changes the deposition follows the publish call, whether
\* it succeeded or not: no upload, no second publish, no creation; the
\* deposition becomes published at most once.
C8_NothingAfterPublish ==
    /\ \A i \in StepsAt("publish") : \A j \in Idx :
          j > i => log[j].step \notin {"create", "upload", "publish"}
    /\ Cardinality(StepsAt("publish")) <= 1
    /\ Cardinality(StepsAt("create")) <= 1
    /\ publishes <= 1
    /\ (dep_state = "published" => publishes = 1 /\ StepsAt("publish") # {})

\* the publish call failed after the uploads, and the run is over
C8_Witness ==
    /\ pc = "exited"
    /\ StepsAt("publish") # {}
    /\ ~log[Len(log)].ok
    /\ log[Len(log)].step = "publish"
    /\ StepsAt("upload") # {}

\* C9: the publish call comes after a successful upload of every member of
\* the file list (the release's assets, or with --skip-download the entries
\* of releases/), each sent to the one deposition this run created; after a
\* failed upload the deposition stays a draft holding the files uploaded
\* before, and is never published.
C9_PublishAfterAllUploads ==
    /\ \A i \in StepsAt("upload") :
          /\ Cardinality(StepsAt("create")) = 1
          /\ log[i].dep = deposition_id
          /\ deposition_id = dep_id
          /\ \A c \in StepsAt("create") : c < i
    /\ \A i \in StepsAt("publish") :
          /\ Uploaded = files
          /\ \A u \in StepsAt("upload") : u < i /\ log[u].ok
          /\ log[i].dep = dep_id
          /\ IF skip_download
             THEN Range(files) = releases_entries /\ Len(files) = Cardinality(releases_entries)
             ELSE files = assets
    /\ \A i \in StepsAt("upload") :
          ~log[i].ok =>
              /\ dep_state = "draft"
              /\ publishes = 0
              /\ StepsAt("publish") = {}
              /\ IsPrefix(Uploaded, dep_files)
              /\ IsPrefix(Uploaded, files)

\* both files of the list are up when the publish call goes out
C9_Witness ==
    /\ StepsAt("publish") # {}
    /\ Len(files) = 2
    /\ Uploaded = files
    /\ dep_files = files
    /\ skip_download

\* C10: with nothing to upload (a release without assets, or with
\* --skip-download no releases/ directory or an empty one) the run ends with
\* status 1 and never calls the archival platform: no deposition, no
\* publish, no summary record; with --skip-download it calls the code host
\* neither.
C10_NothingToUpload ==
    ((~skip_download /\ assets = <<>>) \/ (skip_download /\ releases_entries = {})) =>
        /\ \A i \in Idx : log[i].net # "zenodo"
        /\ StepsAt("create") = {} /\ StepsAt("publish") = {} /\ StepsAt("summary") = {}
        /\ dep_state = "none"
        /\ publishes = 0
        /\ release_json = "absent"
        /\ (skip_download => \A i \in Idx : log[i].net = "none")
        /\ (pc = "exited" => exit_status = 1)

\* the release was looked up and has no asset: the run stops at the test
C10_Witness ==
    /\ pc = "exited"
    /\ ~skip_download
    /\ assets = <<>>
    /\ StepsAt("lookup") # {}
    /\ Failed = {}
    /\ exit_status = 1


----------------------------------------------------------------------------
(* Generator: what a substitution should come to, stated by position *)

\* the places where tok occurs in text
Occ(text, tok) ==
    { i \in 1..(Len(text) - Len(tok) + 1) : SubSeq(text, i, i + Len(tok) - 1) = tok }

RECURSIVE ConcatRange(_, _, _)
ConcatRange(f, lo, hi) ==
    IF lo > hi THEN <<>>
    ELSE IF lo = hi THEN f[lo]
    ELSE LET mid == (lo + hi) \div 2
         IN  ConcatRange(f, lo, mid) \o ConcatRange(f, mid + 1, hi)

\* text with new_a put where tok_a occurs and new_b where tok_b occurs, every
\* other character kept and new_a, new_b put in as they are
SubstAt(text, tok_a, new_a, tok_b, new_b) ==
    LET occ_a == Occ(text, tok_a)
        occ_b == Occ(text, tok_b)
        inside(i) == \/ \E o \in occ_a : o < i /\ i < o + Len(tok_a)
                     \/ \E o \in occ_b : o < i /\ i < o + Len(tok_b)
        f == [i \in 1..Len(text) |->
                IF i \in occ_a THEN new_a
                ELSE IF i \in occ_b THEN new_b
                ELSE IF inside(i) THEN <<>>
                ELSE << text[i] >>]
    IN  ConcatRange(f, 1, Len(text))

\* the text of a file read with universal newlines
Universal(bytes) == Replace(Replace(bytes, << CR, LF >>, << LF >>), << CR >>, << LF >>)

\* every line ending of the file is the platform's line separator already
OnlyPlatformEOL(bytes, sep) ==
    IF sep = << LF >> THEN CR \notin Range(bytes)
    ELSE \A i \in 1..Len(bytes) :
            /\ bytes[i] = LF => i > 1 /\ bytes[i - 1] = CR
            /\ bytes[i] = CR => i < Len(bytes) /\ bytes[i + 1] = LF

HasTables == Contains(TABLES_TOKEN, readme_before)
HasFigs == Contains(FIGS_TOKEN, readme_before)
RunOver == gpc \in {"done", "raised"}

C5_EachTokenReplacedOnce ==
    (gpc = "done" /\ readme_exists /\ HasTables /\ HasFigs) =>
        Universal(readme) =
            SubstAt(Universal(readme_before), TABLES_TOKEN, tables_block, FIGS_TOKEN, figs_block)

\* C6: describe_table returns the description of the first key, in the
\* order of the table, that occurs in the file's name, and the fallback
\* exactly when no key occurs in it; the directories of the path play no part.
C6_FirstMatchingKey ==
    d_result # Unset =>
        LET name == d_path.name
            occurs(k) == \E i \in 1..Len(name) : \E j \in i..Len(name) : SubSeq(name, i, j) = k
            hits == { i \in 1..Len(descriptions) : occurs(descriptions[i].key) }
        IN  /\ hits = {} => d_result = FALLBACK
            /\ \A i \in hits : (\A j \in hits : i <= j) => d_result = descriptions[i].desc
            /\ d_result = FALLBACK => hits = {}

\* the name holds two keys, the later of the table first: the earlier key of
\* the table decides
C6_Witness ==
    /\ d_path.name = K_Fig2 \o K_Fig1 \o EXT_TSV
    /\ d_path.dir = << K_Fig2 >>
    /\ d_result = descriptions[1].desc

\* C7: a tree with no *.tsv outside a metadata directory gives the tables
\* placeholder, a tree with no Fig*.pdf gives the figures placeholder, and no
\* *.tsv under a metadata directory is listed.
UnderMetadata(p) == METADATA \in Range(p.dir)
Listed(p, block) == Contains(<< BACKTICK >> \o RelPath(p) \o << BACKTICK >>, block)
C7_PlaceholderWhenNothingQualifies ==
    /\ tables_block # Unset =>
        /\ (\A p \in tree : EndsWith(p.name, EXT_TSV) => UnderMetadata(p))
              => tables_block \in {NO_TABLES, NO_TABLES_LEFT}
        /\ \A p \in tree :
              (EndsWith(p.name, EXT_TSV) /\ UnderMetadata(p)) => ~Listed(p, tables_block)
    /\ figs_block # Unset =>
        ((\A p \in tree : ~(StartsWith(p.name, FIG_PREFIX) /\ EndsWith(p.name, EXT_PDF)))
              => figs_block = NO_FIGS)


====
